---- MODULE Spec2Model ----
(***************************************************************************)
(* RS485 HEX frame replayer: SenderController (sender_controller.py), the  *)
(* HexParser it reads frames with (hex_parser.py) and the transport flag   *)
(* of RS485Communicator (rs485_comm.py).                                   *)
(*                                                                         *)
(* Time is in integer milliseconds (time.time() * 1000).  Each action is   *)
(* one section of code between two points where another thread, the clock  *)
(* or the transport can be observed to interleave.                         *)
(***************************************************************************)
EXTENDS Integers, Sequences, FiniteSets, TLC

\* ------------------------------------------------------------------ bounds
MaxThreads == 2      \* execution contexts that can run a cycle at once
MaxTime == 2300      \* the clock stops advancing here (ms)
MaxCycles == 2       \* cycle_count is capped here
MaxFail == 1         \* transport failures per load
MaxLines == 3        \* lines of an input given to the parser alone

\* ------------------------------------------------------- program constants
StartTime == 100     \* time.time() at construction: any positive epoch time
IntervalA == 1000    \* minimum interval of header 60 01 13 20 (ms)
IntervalB == 10      \* minimum interval of header 60 01 13 30 (ms)
DefaultDelay == 10   \* flat delay of every other frame (ms)
PollInterval == 100  \* time.sleep(0.1) while paused (ms)

HeaderA == <<96, 1, 19, 32>>   \* b'\x60\x01\x13\x20'
HeaderB == <<96, 1, 19, 48>>   \* b'\x60\x01\x13\x30'

Max(a, b) == IF a >= b THEN a ELSE b

\* ------------------------------------------------------------ hex_parser.py
UpperHex == <<"0", "1", "2", "3", "4", "5", "6", "7", "8", "9",
              "A", "B", "C", "D", "E", "F">>
LowerHex == <<"0", "1", "2", "3", "4", "5", "6", "7", "8", "9",
              "a", "b", "c", "d", "e", "f">>

\* [0-9A-Fa-f]
IsHexChar(c) == \E k \in 1..16 : UpperHex[k] = c \/ LowerHex[k] = c

HexVal(c) == (CHOOSE k \in 1..16 : UpperHex[k] = c \/ LowerHex[k] = c) - 1

\* re.sub(r'[^0-9A-Fa-f]', '', line)
RECURSIVE StripNonHex(_)
StripNonHex(s) ==
    IF s = <<>> THEN <<>>
    ELSE IF IsHexChar(Head(s)) THEN <<Head(s)>> \o StripNonHex(Tail(s))
    ELSE StripNonHex(Tail(s))

\* bytes.fromhex on an even number of hex digits
RECURSIVE FromHex(_)
FromHex(s) ==
    IF s = <<>> THEN <<>>
    ELSE <<16 * HexVal(s[1]) + HexVal(s[2])>> \o FromHex(Tail(Tail(s)))

\* (mutant) an odd digit too many is left out
ParseHexLineTruncating(line) ==
    LET hex_string == StripNonHex(line)
    IN  IF Len(hex_string) % 2 # 0
        THEN FromHex(SubSeq(hex_string, 1, Len(hex_string) - 1))
        ELSE FromHex(hex_string)

\* HexParser._parse_hex_line; None is modelled by the empty byte string, which
\* the caller's "if hex_bytes:" treats alike
ParseHexLine(line) ==
    LET hex_string == StripNonHex(line)
    IN  IF Len(hex_string) % 2 # 0 THEN <<>> ELSE FromHex(hex_string)

\* hex_bytes[:4]
Header(hex_bytes) ==
    IF Len(hex_bytes) <= 4 THEN hex_bytes ELSE SubSeq(hex_bytes, 1, 4)

\* (mutant) the header is recognised by its first three bytes
GetDelayTimeThreeBytes(hex_bytes) ==
    IF Len(hex_bytes) < 4 THEN 10
    ELSE IF SubSeq(hex_bytes, 1, 3) = SubSeq(HeaderA, 1, 3) THEN 1000
    ELSE 10

\* HexParser._get_delay_time
GetDelayTime(hex_bytes) ==
    IF Len(hex_bytes) < 4 THEN 10
    ELSE IF Header(hex_bytes) = HeaderA THEN 1000
    ELSE IF Header(hex_bytes) = HeaderB THEN 10
    ELSE 10

\* str.strip() of a line
RECURSIVE LStrip(_)
LStrip(s) == IF s # <<>> /\ Head(s) = " " THEN LStrip(Tail(s)) ELSE s

RECURSIVE RStrip(_)
RStrip(s) ==
    IF s # <<>> /\ s[Len(s)] = " " THEN RStrip(SubSeq(s, 1, Len(s) - 1)) ELSE s

StripLine(s) == RStrip(LStrip(s))

\* the frame a closed block yields, if any
BlockFrames(block) ==
    LET hex_bytes == ParseHexLine(block)
    IN  IF block # <<>> /\ hex_bytes # <<>>
        THEN <<[bytes |-> hex_bytes, delay_ms |-> GetDelayTime(hex_bytes)]>>
        ELSE <<>>

\* The input files.  lines: the text lines; errAt: the line whose read raises
\* (a decoding or I/O error), 0 for none; exists: open() succeeds.
FileNames == {"good.txt", "empty.txt", "broken.txt", "missing.txt", "pacing.txt"}

FileSystem ==
    [f \in FileNames |->
       CASE f = "good.txt" ->
              [exists |-> TRUE, errAt |-> 0, lines |->
                <<<<"6", "0", " ", "0", "1", " ", "1", "3", " ", "2", "0">>,
                  <<>>,
                  <<" ", "6", "0", " ", "0", "1", " ", "1", "3", " ", "3", "0", " ", "0", "a", " ">>,
                  <<" ", " ">>,
                  <<"6", "0", " ", "0", "1">>,
                  <<"1", "3">>>>]
         [] f = "empty.txt" ->
              [exists |-> TRUE, errAt |-> 0, lines |->
                <<<<"6", " ", "0", " ", "1">>,
                  <<>>,
                  <<"z", "z">>>>]
         [] f = "broken.txt" ->
              [exists |-> TRUE, errAt |-> 5, lines |->
                <<<<"6", "1", " ", "0", "1", " ", "1", "3", " ", "2", "0">>,
                  <<>>,
                  <<"6", "0", " ", "0", "1", " ", "1", "3", " ", "3", "0">>,
                  <<>>>>]
         [] f = "pacing.txt" ->
              [exists |-> TRUE, errAt |-> 0, lines |->
                <<<<"6", "0", " ", "0", "1", " ", "1", "3", " ", "2", "0">>,
                  <<>>,
                  <<"6", "0", " ", "0", "1", " ", "1", "3", " ", "3", "1">>,
                  <<>>,
                  <<"6", "0", "0", "1", "1", "3", "3", "0">>,
                  <<>>,
                  <<"6", "0", " ", "0", "1", " ", "1", "3", " ", "3", "0", " ", "f", "f">>,
                  <<>>,
                  <<"2", "0">>>>]
         [] OTHER ->
              [exists |-> FALSE, errAt |-> 0, lines |-> <<>>]]

\* HexParser.parse_file_generator from line k on, with the block accumulated so
\* far: the frames it yields, in order, and whether it then raises
RECURSIVE GenFrom(_, _, _)
GenFrom(file, k, block) ==
    IF file.errAt = k THEN [frames |-> <<>>, raises |-> TRUE]
    ELSE IF k > Len(file.lines)
    THEN [frames |-> BlockFrames(block), raises |-> FALSE]
    ELSE LET line == StripLine(file.lines[k])
         IN  IF line = <<>>
             THEN LET rest == GenFrom(file, k + 1, <<>>)
                  IN  [frames |-> BlockFrames(block) \o rest.frames,
                       raises |-> rest.raises]
             ELSE GenFrom(file, k + 1,
                          IF block # <<>> THEN block \o <<" ">> \o line ELSE line)

\* one traversal of parse_file_generator() on a file name ("" opens nothing)
ParseFileGenerator(filename) ==
    IF filename \notin FileNames \/ ~FileSystem[filename].exists
    THEN [frames |-> <<>>, raises |-> TRUE]
    ELSE GenFrom(FileSystem[filename], 1, <<>>)

\* every file's traversal, computed once
Parsed == [f \in FileNames \cup {""} |-> ParseFileGenerator(f)]

\* one traversal of parse_file_generator() on an input given as such
Traversal(file) ==
    IF ~file.exists THEN [frames |-> <<>>, raises |-> TRUE]
    ELSE GenFrom(file, 1, <<>>)

\* parse_file's loop: self.hex_data.append(...) for each item yielded
RECURSIVE AppendAll(_, _)
AppendAll(hex_data, items) ==
    IF items = <<>> THEN hex_data
    ELSE AppendAll(Append(hex_data, Head(items)), Tail(items))

\* (mutant) the items are put in front of the list
RECURSIVE PrependAll(_, _)
PrependAll(hex_data, items) ==
    IF items = <<>> THEN hex_data
    ELSE PrependAll(<<Head(items)>> \o hex_data, Tail(items))

ParseFileReversed(file) ==
    LET gen == Traversal(file)
        hex_data == PrependAll(<<>>, gen.frames)
    IN  [done |-> TRUE, frames |-> hex_data, n |-> Len(hex_data),
         raises |-> gen.raises]

\* HexParser.parse_file: the list it has built in self.hex_data (returned
\* unless the traversal raised) and its length
ParseFile(file) ==
    LET gen == Traversal(file)
        hex_data == AppendAll(<<>>, gen.frames)
    IN  [done |-> TRUE, frames |-> hex_data, n |-> Len(hex_data),
         raises |-> gen.raises]

\* load_hex_file's counting pass, lines 63-67: total_data_count += 1 for each
\* item yielded
RECURSIVE CountAll(_, _)
CountAll(total_data_count, items) ==
    IF items = <<>> THEN total_data_count
    ELSE CountAll(total_data_count + 1, Tail(items))

CountingPass(file) ==
    LET gen == Traversal(file)
    IN  [done |-> TRUE, frames |-> <<>>, n |-> CountAll(0, gen.frames),
         raises |-> gen.raises]

\* a cycle's traversal (line 296): the frames it was given
Traverse(file) ==
    LET gen == Traversal(file)
    IN  [done |-> TRUE, frames |-> gen.frames, n |-> Len(gen.frames),
         raises |-> gen.raises]

\* -------------------------------------------------------------------- state
Threads == 1..MaxThreads

VARIABLES
    \* SenderController fields
    hex_data, hex_filename, use_memory_efficient, current_index, cycle_count,
    is_running, is_paused, total_sent, total_data_count,
    last_60_01_13_20_time, last_60_01_13_30_time,
    \* RS485Communicator.is_connected
    is_connected,
    \* time.time() in ms
    now,
    \* the execution contexts that run _send_one_cycle: for each its position
    \* (pc) and the locals of _continuous_send_loop and _send_one_cycle_*
    thread,
    \* history, for stating properties: transport sends returned since the
    \* last load and how many of them failed; the completion time of the last
    \* attempt of class A and B; the index of the last attempt and whether
    \* resume() has taken a pause back with no attempt made since
    attempts, failures, endA, endB, lastIdx, resumed,
    \* stop() was called and start_sending has not succeeded since; an
    \* exception ended a cycle since the last successful start
    stopPending, aborted,
    \* the caller's last operation was a start_sending that returned early
    rejected,
    \* the instant of that stop() (0: none)
    stopTime,
    \* a get_status() call made from another thread: how far it has got, the
    \* fields it has read, and the states the controller went through since
    \* the call began
    status,
    \* a HexParser at work on an input of its own, apart from the controller:
    \* the input and what parse_file, the traversals of parse_file_generator
    \* and load_hex_file's counting pass made of it
    parser

ctl == <<hex_data, hex_filename, use_memory_efficient, current_index, cycle_count,
         is_running, is_paused, total_sent, total_data_count,
         last_60_01_13_20_time, last_60_01_13_30_time>>
hist == <<attempts, failures, endA, endB, lastIdx, resumed, stopPending, aborted,
          stopTime>>
prog == <<ctl, is_connected, now, thread, hist>>
vars == <<prog, rejected, status, parser>>

\* a context that runs nothing
IdleThread ==
    [pc |-> "idle", continuous |-> FALSE, streaming |-> FALSE,
     src |-> <<>>, raises |-> FALSE, i |-> 0,
     calculated_delay |-> 0, current_time |-> 0, wake |-> 0,
     transmission_start_time |-> 0, success |-> FALSE,
     \* history: the attempts of the cycle so far, whether the cycle was cut
     \* by the break, whether stop() came while it was in progress, and
     \* whether this start was of a freshly loaded controller
     trace |-> <<>>, broken |-> FALSE, stopped |-> FALSE, fresh |-> FALSE]

\* no get_status() call is under way
IdleStatus == [pc |-> "idle", got |-> <<>>, seen |-> {}]

\* what an operation of the parser leaves: the frames it collected or yielded,
\* their count, and whether it ended by raising
NotDone == [done |-> FALSE, frames |-> <<>>, n |-> 0, raises |-> FALSE]

\* the parser on the side has no input and has done nothing
NoParser ==
    [input |-> [exists |-> FALSE, errAt |-> 0, lines |-> <<>>],
     parse_file |-> NotDone, first |-> NotDone, second |-> NotDone,
     count |-> NotDone]

\* SenderController.__init__ and RS485Communicator.__init__
InitController ==
    /\ hex_data = <<>>
    /\ hex_filename = ""
    /\ use_memory_efficient = FALSE
    /\ current_index = 0
    /\ cycle_count = 0
    /\ is_running = FALSE
    /\ is_paused = FALSE
    /\ total_sent = 0
    /\ total_data_count = 0
    /\ last_60_01_13_20_time = 0
    /\ last_60_01_13_30_time = 0
    /\ is_connected = FALSE
    /\ now = StartTime
    /\ thread = [t \in Threads |-> IdleThread]
    /\ attempts = 0
    /\ failures = 0
    /\ endA = 0
    /\ endB = 0
    /\ lastIdx = 0
    /\ resumed = FALSE
    /\ stopPending = FALSE
    /\ rejected = FALSE
    /\ aborted = FALSE
    /\ stopTime = 0
    /\ status = IdleStatus

Init == InitController /\ parser = NoParser

\* get_status()'s fields, in the order it reads them (lines 390-395)
Snapshot ==
    <<is_running, is_paused, current_index, total_data_count, cycle_count,
      total_sent>>

\* a step of the controller: a get_status() call under way has one more state
\* it may have seen; the parser on the side is not involved
Watch ==
    /\ status' = IF status.pc = "reading"
                 THEN [status EXCEPT !.seen = @ \cup {Snapshot'}]
                 ELSE status
    /\ UNCHANGED parser

Active(t) == thread[t].pc # "idle"
AllIdle == \A t \in Threads : ~Active(t)

\* ------------------------------------------------------------------- clock
\* time passes
Tick(d) ==
    /\ now + d <= MaxTime
    /\ now' = now + d
    /\ UNCHANGED <<ctl, is_connected, thread, hist>>
    /\ UNCHANGED rejected
    /\ Watch

\* ------------------------------------------------------------- the transport
\* RS485Communicator.connect succeeding (main.py's test mode sets the flag)
Connect ==
    /\ ~is_connected
    /\ is_connected' = TRUE
    /\ UNCHANGED <<ctl, now, thread, hist>>
    /\ rejected' = FALSE
    /\ Watch

\* RS485Communicator.disconnect
Disconnect ==
    /\ is_connected
    /\ is_connected' = FALSE
    /\ UNCHANGED <<ctl, now, thread, hist>>
    /\ rejected' = FALSE
    /\ Watch

\* ------------------------------------------------- the caller's operations
\* a load or a start: no cycle in progress is that of a freshly loaded
\* controller any more, nor one that stop() was the last word on
Unfresh == [t \in Threads |-> [thread[t] EXCEPT !.fresh = FALSE, !.stopped = FALSE]]

\* (mutant) a load leaves the position where it was
LoadHexFileKeepsIndex(filename, memory_efficient) ==
    LET gen == Parsed[filename]
    IN  /\ hex_filename' = filename
        /\ use_memory_efficient' = memory_efficient
        /\ UNCHANGED current_index
        /\ cycle_count' = 0
        /\ total_sent' = 0
        /\ IF memory_efficient
           THEN \* the count goes up frame by frame until the generator ends or raises
                /\ hex_data' = <<>>
                /\ total_data_count' = Len(gen.frames)
           ELSE IF gen.raises
           THEN \* parse_file() raised: neither field is assigned
                UNCHANGED <<hex_data, total_data_count>>
           ELSE /\ hex_data' = gen.frames
                /\ total_data_count' = Len(gen.frames)
        /\ thread' = Unfresh
        /\ attempts' = 0
        /\ failures' = 0
        /\ resumed' = FALSE
        /\ rejected' = FALSE
        /\ UNCHANGED <<is_running, is_paused, last_60_01_13_20_time,
                       last_60_01_13_30_time, is_connected, now,
                       endA, endB, lastIdx, stopPending, aborted,
                       stopTime>>
        /\ Watch

\* SenderController.load_hex_file(filename, memory_efficient)
LoadHexFile(filename, memory_efficient) ==
    LET gen == Parsed[filename]
    IN  /\ hex_filename' = filename
        /\ use_memory_efficient' = memory_efficient
        /\ current_index' = 0
        /\ cycle_count' = 0
        /\ total_sent' = 0
        /\ IF memory_efficient
           THEN \* the count goes up frame by frame until the generator ends or raises
                /\ hex_data' = <<>>
                /\ total_data_count' = Len(gen.frames)
           ELSE IF gen.raises
           THEN \* parse_file() raised: neither field is assigned
                UNCHANGED <<hex_data, total_data_count>>
           ELSE /\ hex_data' = gen.frames
                /\ total_data_count' = Len(gen.frames)
        /\ thread' = Unfresh
        /\ attempts' = 0
        /\ failures' = 0
        /\ resumed' = FALSE
        /\ rejected' = FALSE
        /\ UNCHANGED <<is_running, is_paused, last_60_01_13_20_time,
                       last_60_01_13_30_time, is_connected, now,
                       endA, endB, lastIdx, stopPending, aborted,
                       stopTime>>
        /\ Watch

\* (mutant) only the materialized list is looked at
NotLoadedMaterializedOnly == hex_data = <<>> /\ ~use_memory_efficient

\* start_sending's first early return (lines 125-130)
NotLoaded ==
    \/ (hex_data = <<>> /\ ~use_memory_efficient)
    \/ (use_memory_efficient /\ total_data_count = 0)

\* the context start_sending runs the cycles in: a new thread, or the caller's
NewThread(continuous) ==
    [IdleThread EXCEPT !.pc = IF continuous THEN "while" ELSE "cycle",
                       !.continuous = continuous,
                       !.fresh = (cycle_count = 0 /\ AllIdle)]

\* SenderController.start_sending(continuous)
StartSending(continuous) ==
    IF NotLoaded
    THEN rejected' = TRUE /\ UNCHANGED prog /\ Watch
    ELSE IF ~is_connected
    THEN rejected' = TRUE /\ UNCHANGED prog /\ Watch
    ELSE /\ \E t \in Threads :
              /\ ~Active(t)
              /\ \A u \in Threads : u < t => Active(u)
              /\ thread' = [Unfresh EXCEPT ![t] = NewThread(continuous)]
         /\ is_running' = TRUE
         /\ is_paused' = FALSE
         /\ rejected' = FALSE
         /\ stopPending' = FALSE
         /\ stopTime' = 0
         /\ aborted' = FALSE
         /\ resumed' = FALSE
         /\ UNCHANGED <<hex_data, hex_filename, use_memory_efficient, current_index,
                       cycle_count, total_sent, total_data_count,
                       last_60_01_13_20_time, last_60_01_13_30_time,
                       is_connected, now,
                       attempts, failures, endA, endB, lastIdx>>
         /\ Watch

\* the cycle of context t is in progress: cycle_count is incremented and the
\* end of the cycle is not yet reached
InCycle(t) == thread[t].pc \in {"for", "sleep", "send", "record"}

\* SenderController.stop_sending
StopSending ==
    /\ is_running' = FALSE
    /\ is_paused' = FALSE
    /\ stopPending' = TRUE
    /\ stopTime' = now
    /\ resumed' = FALSE
    /\ thread' = [t \in Threads |->
                    [thread[t] EXCEPT !.stopped = @ \/ InCycle(t)]]
    /\ UNCHANGED <<hex_data, hex_filename, use_memory_efficient, current_index,
                   cycle_count, total_sent, total_data_count,
                   last_60_01_13_20_time, last_60_01_13_30_time,
                   is_connected, now,
                   attempts, failures, endA, endB, lastIdx, aborted>>
    /\ rejected' = FALSE
    /\ Watch

\* (mutant) pausing also takes the position back
PauseSendingResets ==
    /\ is_paused' = TRUE
    /\ current_index' = 0
    /\ UNCHANGED <<hex_data, hex_filename, use_memory_efficient,
                   cycle_count, is_running, total_sent, total_data_count,
                   last_60_01_13_20_time, last_60_01_13_30_time,
                   is_connected, now, thread, hist>>
    /\ rejected' = FALSE
    /\ Watch

\* SenderController.pause_sending
PauseSending ==
    /\ is_paused' = TRUE
    /\ UNCHANGED <<hex_data, hex_filename, use_memory_efficient, current_index,
                   cycle_count, is_running, total_sent, total_data_count,
                   last_60_01_13_20_time, last_60_01_13_30_time,
                   is_connected, now, thread, hist>>
    /\ rejected' = FALSE
    /\ Watch

\* SenderController.resume_sending
ResumeSending ==
    /\ is_paused' = FALSE
    /\ resumed' = (resumed \/ (is_paused /\ is_running /\ ~AllIdle))
    /\ UNCHANGED <<hex_data, hex_filename, use_memory_efficient, current_index,
                   cycle_count, is_running, total_sent, total_data_count,
                   last_60_01_13_20_time, last_60_01_13_30_time,
                   is_connected, now, thread,
                   attempts, failures, endA, endB, lastIdx, stopPending, aborted,
                       stopTime>>
    /\ rejected' = FALSE
    /\ Watch

\* ------------------------------------------------- the wait before a frame
\* (mutant) class-A and class-B frames are never made to wait
CalculatedDelayNoDeficit(hex_bytes, current_time, last_20, last_30) ==
    IF Header(hex_bytes) \in {HeaderA, HeaderB} THEN 0 ELSE DefaultDelay

\* (mutant) every frame waits its class's whole interval
CalculatedDelayNominal(hex_bytes, current_time, last_20, last_30) ==
    IF Header(hex_bytes) = HeaderA THEN IntervalA
    ELSE IF Header(hex_bytes) = HeaderB THEN IntervalB
    ELSE DefaultDelay

\* (mutant) a frame with no complete header is sent at once
CalculatedDelayShortAtOnce(hex_bytes, current_time, last_20, last_30) ==
    IF Len(hex_bytes) < 4 THEN 0
    ELSE IF Header(hex_bytes) = HeaderA
    THEN IF last_20 > 0 THEN Max(0, IntervalA - (current_time - last_20)) ELSE 0
    ELSE IF Header(hex_bytes) = HeaderB
    THEN IF last_30 > 0 THEN Max(0, IntervalB - (current_time - last_30)) ELSE 0
    ELSE DefaultDelay

\* _send_one_cycle_traditional, lines 221-246: calculated_delay
CalculatedDelayTraditional(hex_bytes, current_time, last_20, last_30) ==
    LET header == Header(hex_bytes)
    IN  IF header = HeaderA
        THEN IF last_20 > 0
             THEN LET elapsed_since_last == current_time - last_20
                  IN  IF elapsed_since_last < IntervalA
                      THEN IntervalA - elapsed_since_last ELSE 0
             ELSE 0
        ELSE IF header = HeaderB
        THEN IF last_30 > 0
             THEN LET elapsed_since_last == current_time - last_30
                  IN  IF elapsed_since_last < IntervalB
                      THEN IntervalB - elapsed_since_last ELSE 0
             ELSE 0
        ELSE DefaultDelay

\* _send_one_cycle_memory_efficient, lines 317-342: calculated_delay
CalculatedDelayMemoryEfficient(hex_bytes, current_time, last_20, last_30) ==
    LET header == Header(hex_bytes)
    IN  IF header = HeaderA
        THEN IF last_20 > 0
             THEN LET elapsed_since_last == current_time - last_20
                  IN  IF elapsed_since_last < IntervalA
                      THEN IntervalA - elapsed_since_last ELSE 0
             ELSE 0
        ELSE IF header = HeaderB
        THEN IF last_30 > 0
             THEN LET elapsed_since_last == current_time - last_30
                  IN  IF elapsed_since_last < IntervalB
                      THEN IntervalB - elapsed_since_last ELSE 0
             ELSE 0
        ELSE DefaultDelay

\* ---------------------------------------------------- the cycle's contexts
\* (mutant) the exception leaves the cycle in streaming mode too
RaisedPropagates(t) == IdleThread

\* An exception raised in the cycle of context t.  Streaming: the except of
\* line 379 ends the cycle (current_index is not reset).  Materialized: it
\* leaves _send_one_cycle_traditional and whatever called it: the thread dies,
\* or start_sending(False) raises with is_running still set.
Raised(t) ==
    IF thread[t].streaming
    THEN [thread[t] EXCEPT !.pc = "done", !.calculated_delay = 0,
                           !.current_time = 0, !.wake = 0,
                           !.transmission_start_time = 0, !.success = FALSE]
    ELSE IdleThread

\* (mutant) while True: the loop does not look at is_running
WhileRunningForever(t) ==
    /\ thread[t].pc = "while"
    /\ thread' = [thread EXCEPT ![t] = [@ EXCEPT !.pc = "ifpaused"]]
    /\ UNCHANGED <<ctl, is_connected, now, hist>>
    /\ UNCHANGED rejected
    /\ Watch

\* _continuous_send_loop, line 172: while self.is_running
WhileRunning(t) ==
    /\ thread[t].pc = "while"
    /\ thread' = [thread EXCEPT ![t] =
                    IF is_running THEN [@ EXCEPT !.pc = "ifpaused"] ELSE IdleThread]
    /\ UNCHANGED <<ctl, is_connected, now, hist>>
    /\ UNCHANGED rejected
    /\ Watch

\* _continuous_send_loop, lines 173 and 179-181: if not self.is_paused
IfNotPaused(t) ==
    /\ thread[t].pc = "ifpaused"
    /\ thread' = [thread EXCEPT ![t] =
                    IF ~is_paused THEN [@ EXCEPT !.pc = "cycle"]
                    ELSE [@ EXCEPT !.pc = "poll", !.wake = now + PollInterval]]
    /\ UNCHANGED <<ctl, is_connected, now, hist>>
    /\ UNCHANGED rejected
    /\ Watch

\* time.sleep(0.1) returns
PollWake(t) ==
    /\ thread[t].pc = "poll"
    /\ now >= thread[t].wake
    /\ thread' = [thread EXCEPT ![t] = [@ EXCEPT !.pc = "while", !.wake = 0]]
    /\ UNCHANGED <<ctl, is_connected, now, hist>>
    /\ UNCHANGED rejected
    /\ Watch

\* (mutant) the cycle is not counted
NextCycleCountNone(c) == c

\* lines 199 and 290: self.cycle_count += 1
NextCycleCount(c) == c + 1

\* _send_one_cycle, then lines 196-199 or 287-293: the cycle starts
CycleBegin(t) ==
    /\ thread[t].pc = "cycle"
    /\ IF use_memory_efficient
       THEN IF hex_filename = ""
            THEN /\ thread' = [thread EXCEPT ![t] = [@ EXCEPT !.pc = "done"]]
                 /\ UNCHANGED cycle_count
            ELSE /\ cycle_count < MaxCycles
                 /\ cycle_count' = NextCycleCount(cycle_count)
                 /\ thread' = [thread EXCEPT ![t] =
                       [@ EXCEPT !.pc = "for", !.streaming = TRUE, !.i = 0,
                                 !.src = Parsed[hex_filename].frames,
                                 !.raises = Parsed[hex_filename].raises,
                                 !.trace = <<>>, !.broken = FALSE]]
       ELSE IF hex_data = <<>>
            THEN /\ thread' = [thread EXCEPT ![t] = [@ EXCEPT !.pc = "done"]]
                 /\ UNCHANGED cycle_count
            ELSE /\ cycle_count < MaxCycles
                 /\ cycle_count' = NextCycleCount(cycle_count)
                 /\ thread' = [thread EXCEPT ![t] =
                       [@ EXCEPT !.pc = "for", !.streaming = FALSE, !.i = 0,
                                 !.src = hex_data, !.raises = FALSE,
                                 !.trace = <<>>, !.broken = FALSE]]
    /\ UNCHANGED <<hex_data, hex_filename, use_memory_efficient, current_index,
                   is_running, is_paused, total_sent, total_data_count,
                   last_60_01_13_20_time, last_60_01_13_30_time,
                   is_connected, now, hist>>
    /\ UNCHANGED rejected
    /\ Watch

\* (mutant) the loop ends one item early
ExhaustedEarly(k, src) == k >= Len(src)

\* the for loop has no further item (lines 201, 296)
Exhausted(k, src) == k > Len(src)

\* (mutant) the break looks at is_paused only
BreakConditionPauseOnly == is_paused

\* lines 202 and 297: if not self.is_running or self.is_paused: break
BreakCondition == ~is_running \/ is_paused

\* The head of the for loop and the frame's steps up to the sleep (lines
\* 201-257, 296-353): the next frame is fetched, the flags are checked, the
\* position and the progress are reported (raising iff exc), the wait is
\* computed.
ForNext(t, exc) ==
    LET th == thread[t]
        k == th.i + 1
    IN  /\ th.pc = "for"
        /\ IF Exhausted(k, th.src)
           THEN \* the source is exhausted, or the generator raises
                /\ ~exc
                /\ thread' = [thread EXCEPT ![t] =
                      IF th.raises THEN Raised(t) ELSE [@ EXCEPT !.pc = "reset"]]
                /\ aborted' = (aborted \/ th.raises)
                /\ UNCHANGED current_index
           ELSE IF BreakCondition
           THEN \* break
                /\ ~exc
                /\ thread' = [thread EXCEPT ![t] =
                                [@ EXCEPT !.pc = "reset", !.broken = TRUE]]
                /\ UNCHANGED <<current_index, aborted>>
           ELSE /\ current_index' = k
                /\ aborted' = (aborted \/ exc)
                /\ thread' = [thread EXCEPT ![t] =
                      IF exc THEN Raised(t)
                      ELSE LET d == IF th.streaming
                                    THEN CalculatedDelayMemoryEfficient(
                                           th.src[k].bytes, now,
                                           last_60_01_13_20_time, last_60_01_13_30_time)
                                    ELSE CalculatedDelayTraditional(
                                           th.src[k].bytes, now,
                                           last_60_01_13_20_time, last_60_01_13_30_time)
                           IN  [@ EXCEPT !.i = k, !.current_time = now,
                                         !.calculated_delay = d,
                                         !.pc = IF d > 0 THEN "sleep" ELSE "send",
                                         !.wake = IF d > 0 THEN now + d ELSE 0,
                                         !.transmission_start_time =
                                             IF d > 0 THEN 0 ELSE now]]
        /\ UNCHANGED <<hex_data, hex_filename, use_memory_efficient, cycle_count,
                       is_running, is_paused, total_sent, total_data_count,
                       last_60_01_13_20_time, last_60_01_13_30_time,
                       is_connected, now,
                       attempts, failures, endA, endB, lastIdx, resumed, stopPending,
                       stopTime>>
        /\ UNCHANGED rejected
        /\ Watch

\* (mutant) the flags are looked at again after the wait
AfterSleepChecked == IF ~is_running \/ is_paused THEN "reset" ELSE "send"

\* where a context is after the wait: at the call of send_data; nothing
\* between lines 251 and 260 (347 and 356) looks at the flags
AfterSleep == "send"

\* time.sleep(calculated_delay / 1000.0) returns (lines 251-252, 347-348)
SleepWake(t) ==
    /\ thread[t].pc = "sleep"
    /\ now >= thread[t].wake
    /\ thread' = [thread EXCEPT ![t] =
                    [@ EXCEPT !.pc = AfterSleep, !.wake = 0,
                              !.transmission_start_time = now]]
    /\ UNCHANGED <<ctl, is_connected, now, hist>>
    /\ UNCHANGED rejected
    /\ Watch

\* RS485Communicator.send_data: False when not connected, else whether the
\* serial write succeeded (ok)
SendData(ok) == is_connected /\ ok

\* self.rs485_comm.send_data(hex_bytes) is called (lines 260, 356)
Send(t, ok) ==
    LET th == thread[t]
    IN  /\ th.pc = "send"
        /\ ok => is_connected
        /\ (is_connected /\ ~ok) => failures < MaxFail
        /\ thread' = [thread EXCEPT ![t] =
              [@ EXCEPT !.pc = "record", !.success = SendData(ok),
                        !.trace = Append(@, [idx |-> th.i,
                                             bytes |-> th.src[th.i].bytes])]]
        /\ lastIdx' = th.i
        /\ resumed' = FALSE
        /\ UNCHANGED <<ctl, is_connected, now,
                       attempts, failures, endA, endB, stopPending, aborted, stopTime>>
        /\ UNCHANGED rejected
        /\ Watch

\* (mutant) every attempt is counted
CountSentAlways(success, n) == n + 1

\* lines 273-274 and 369-370: if success: self.total_sent += 1
CountSent(success, n) == IF success THEN n + 1 ELSE n

\* (mutant) only a successful attempt is recorded
LastSendTimeOnSuccess(own, success, transmission_end_time, last) ==
    IF own /\ success THEN transmission_end_time ELSE last

\* (mutant) every attempt is recorded for both classes
LastSendTimeAnyClass(own, success, transmission_end_time, last) ==
    transmission_end_time

\* lines 268-271 and 364-367: a class's timestamp after an attempt, own being
\* whether the frame's header is that of the class; success plays no part
LastSendTime(own, success, transmission_end_time, last) ==
    IF own THEN transmission_end_time ELSE last

\* send_data has returned (lines 262-278, 358-374): the completion time is
\* recorded, total_sent counts a success, the outcome is reported (raising
\* iff exc)
Record(t, exc) ==
    LET th == thread[t]
        header == Header(th.src[th.i].bytes)
        transmission_end_time == now
    IN  /\ th.pc = "record"
        /\ last_60_01_13_20_time' =
              LastSendTime(header = HeaderA, th.success,
                           transmission_end_time, last_60_01_13_20_time)
        /\ last_60_01_13_30_time' =
              LastSendTime(header # HeaderA /\ header = HeaderB, th.success,
                           transmission_end_time, last_60_01_13_30_time)
        /\ total_sent' = CountSent(th.success, total_sent)
        /\ thread' = [thread EXCEPT ![t] =
              IF exc THEN Raised(t)
              ELSE [@ EXCEPT !.pc = "for", !.calculated_delay = 0,
                             !.current_time = 0, !.transmission_start_time = 0,
                             !.success = FALSE]]
        /\ attempts' = attempts + 1
        /\ failures' = IF th.success THEN failures ELSE failures + 1
        /\ endA' = IF header = HeaderA THEN now ELSE endA
        /\ endB' = IF header = HeaderB THEN now ELSE endB
        /\ aborted' = (aborted \/ exc)
        /\ UNCHANGED <<hex_data, hex_filename, use_memory_efficient, current_index,
                       cycle_count, is_running, is_paused, total_data_count,
                       is_connected, now, lastIdx, resumed, stopPending, stopTime>>
        /\ UNCHANGED rejected
        /\ Watch

\* lines 280-281, 376-377: self.current_index = 0
ResetIndex(t) ==
    /\ thread[t].pc = "reset"
    /\ current_index' = 0
    /\ thread' = [thread EXCEPT ![t] = [@ EXCEPT !.pc = "done"]]
    /\ UNCHANGED <<hex_data, hex_filename, use_memory_efficient, cycle_count,
                   is_running, is_paused, total_sent, total_data_count,
                   last_60_01_13_20_time, last_60_01_13_30_time,
                   is_connected, now, hist>>
    /\ UNCHANGED rejected
    /\ Watch

\* _send_one_cycle has returned: to _continuous_send_loop, lines 176-178 (the
\* cycle-complete callback, raising iff exc, then the loop's head), or to
\* start_sending, line 147
CycleDone(t, exc) ==
    LET th == thread[t]
    IN  /\ th.pc = "done"
        /\ IF th.continuous
           THEN /\ thread' = [thread EXCEPT ![t] =
                      IF exc THEN IdleThread
                      ELSE [IdleThread EXCEPT !.pc = "while", !.continuous = TRUE,
                                              !.stopped = th.stopped]]
                /\ aborted' = (aborted \/ exc)
                /\ UNCHANGED is_running
           ELSE /\ ~exc
                /\ thread' = [thread EXCEPT ![t] = IdleThread]
                /\ is_running' = FALSE
                /\ UNCHANGED aborted
        /\ UNCHANGED <<hex_data, hex_filename, use_memory_efficient, current_index,
                       cycle_count, is_paused, total_sent, total_data_count,
                       last_60_01_13_20_time, last_60_01_13_30_time,
                       is_connected, now,
                       attempts, failures, endA, endB, lastIdx, resumed, stopPending,
                       stopTime>>
        /\ UNCHANGED rejected
        /\ Watch

\* ------------------------------------------------------------- get_status
\* the fields get_status() reads, in the order of the dict display (lines
\* 390-396)
StatusFields ==
    <<is_running, is_paused, current_index, total_data_count, cycle_count,
      total_sent, use_memory_efficient>>

\* another thread calls get_status() (line 382)
GetStatusCall ==
    /\ status.pc # "reading"
    /\ status' = [pc |-> "reading", got |-> <<>>, seen |-> {Snapshot}]
    /\ UNCHANGED <<prog, rejected, parser>>

\* get_status() evaluates the next entry of the dict; with the last one the
\* dict is returned (lines 389-397).  No lock is held: the controller's
\* contexts take their steps between two reads.
GetStatusRead ==
    LET k == Len(status.got) + 1
    IN  /\ status.pc = "reading"
        /\ status' = [status EXCEPT
                         !.got = Append(@, StatusFields[k]),
                         !.pc = IF k = Len(StatusFields) THEN "returned"
                                ELSE "reading"]
        /\ UNCHANGED <<prog, rejected, parser>>

\* ------------------------------------------------------ the parser at work
\* parser.parse_file() on the input
DoParseFile ==
    /\ ~parser.parse_file.done
    /\ parser' = [parser EXCEPT !.parse_file = ParseFile(parser.input)]
    /\ UNCHANGED <<prog, rejected, status>>

\* a traversal of parser.parse_file_generator(): the first, then another of
\* the unchanged input
DoTraverse ==
    /\ ~parser.second.done
    /\ parser' = IF ~parser.first.done
                 THEN [parser EXCEPT !.first = Traverse(parser.input)]
                 ELSE [parser EXCEPT !.second = Traverse(parser.input)]
    /\ UNCHANGED <<prog, rejected, status>>

\* the counting pass of load_hex_file(..., memory_efficient=True)
DoCount ==
    /\ ~parser.count.done
    /\ parser' = [parser EXCEPT !.count = CountingPass(parser.input)]
    /\ UNCHANGED <<prog, rejected, status>>

\* ------------------------------------------------------- the specifications
Modes == BOOLEAN

\* What can happen next.  files: the files the caller loads; ticks: the steps
\* the clock moves in; excs: whether an observer callback may raise; solo: the
\* caller starts and loads only while no context is running a cycle.
Step(files, ticks, excs, solo) ==
    \/ \E d \in ticks : Tick(d)
    \/ Connect
    \/ Disconnect
    \/ \E f \in files, m \in Modes : AllIdle /\ LoadHexFile(f, m)
    \/ \E c \in BOOLEAN : (solo => AllIdle) /\ StartSending(c)
    \/ StopSending
    \/ PauseSending
    \/ ResumeSending
    \/ \E t \in Threads : WhileRunning(t)
    \/ \E t \in Threads : IfNotPaused(t)
    \/ \E t \in Threads : PollWake(t)
    \/ \E t \in Threads : CycleBegin(t)
    \/ \E t \in Threads, exc \in excs : ForNext(t, exc)
    \/ \E t \in Threads : SleepWake(t)
    \/ \E t \in Threads, ok \in BOOLEAN : Send(t, ok)
    \/ \E t \in Threads, exc \in excs : Record(t, exc)
    \/ \E t \in Threads : ResetIndex(t)
    \/ \E t \in Threads, exc \in excs : CycleDone(t, exc)

\* One driver: any files, observers that may raise, the clock in steps no
\* wait outlasts.
Next == Step(FileNames \ {"pacing.txt"}, {IntervalA}, BOOLEAN, TRUE)

Spec == Init /\ [][Next]_vars

\* A caller that may call start_sending at any moment, also while a context is
\* running a cycle; one file, no pause, a transport and observers that do not
\* fail.  start_sending(False) runs the cycle in the caller's own thread
\* (lines 145-147), so the caller makes no call while such a cycle runs.
CallerFree == \A t \in Threads : Active(t) => thread[t].continuous

NextConcurrent ==
    \/ Tick(IntervalA)
    \/ Connect
    \/ \E m \in Modes : AllIdle /\ LoadHexFile("good.txt", m)
    \/ \E c \in BOOLEAN : CallerFree /\ StartSending(c)
    \/ StopSending
    \/ \E t \in Threads : WhileRunning(t)
    \/ \E t \in Threads : IfNotPaused(t)
    \/ \E t \in Threads : CycleBegin(t)
    \/ \E t \in Threads : ForNext(t, FALSE)
    \/ \E t \in Threads : SleepWake(t)
    \/ \E t \in Threads : Send(t, TRUE)
    \/ \E t \in Threads : Record(t, FALSE)
    \/ \E t \in Threads : ResetIndex(t)
    \/ \E t \in Threads : CycleDone(t, FALSE)

SpecConcurrent == Init /\ [][NextConcurrent]_vars

\* One continuous run over a file with every class of frame, a transport that
\* may fail, pause and resume.  The clock moves through the instants below:
\* they lie 5, 10, 20, 50, 200 and 1000 ms and more from one another, so the
\* program reads the clock inside and outside both classes' intervals.
PacingInstants == {105, 110, 120, 130, 180, 330, 1130, 1135, 1140, 1150, 2200}

NextPacing ==
    \/ \E instant \in PacingInstants : instant > now /\ Tick(instant - now)
    \/ Connect
    \/ \E m \in Modes : AllIdle /\ LoadHexFile("pacing.txt", m)
    \/ AllIdle /\ StartSending(TRUE)
    \/ PauseSending
    \/ ResumeSending
    \/ \E t \in Threads : WhileRunning(t)
    \/ \E t \in Threads : IfNotPaused(t)
    \/ \E t \in Threads : PollWake(t)
    \/ \E t \in Threads : CycleBegin(t)
    \/ \E t \in Threads : ForNext(t, FALSE)
    \/ \E t \in Threads : SleepWake(t)
    \/ \E t \in Threads, ok \in BOOLEAN : Send(t, ok)
    \/ \E t \in Threads : Record(t, FALSE)
    \/ \E t \in Threads : ResetIndex(t)
    \/ \E t \in Threads : CycleDone(t, FALSE)

SpecPacing == Init /\ [][NextPacing]_vars

\* One continuous materialized run, and another thread that calls
\* get_status() once while it goes on.
NextStatus ==
    \/ Tick(IntervalA)
    \/ Connect
    \/ AllIdle /\ LoadHexFile("good.txt", FALSE)
    \/ AllIdle /\ StartSending(TRUE)
    \/ status.pc = "idle" /\ ~AllIdle /\ GetStatusCall
    \/ GetStatusRead
    \/ \E t \in Threads : WhileRunning(t)
    \/ \E t \in Threads : IfNotPaused(t)
    \/ \E t \in Threads : CycleBegin(t)
    \/ \E t \in Threads : ForNext(t, FALSE)
    \/ \E t \in Threads : SleepWake(t)
    \/ \E t \in Threads : Send(t, TRUE)
    \/ \E t \in Threads : Record(t, FALSE)
    \/ \E t \in Threads : ResetIndex(t)
    \/ \E t \in Threads : CycleDone(t, FALSE)

SpecStatus == Init /\ [][NextStatus]_vars

\* The parser alone, on every input of up to MaxLines lines drawn from the
\* lines below (hex digits, blanks, other characters, an odd number of
\* digits, an empty line), readable to the end or up to some line, or missing.
InputLines ==
    {<<>>, <<" ">>, <<"6", "0">>, <<" ", "a", "F", " ">>, <<"1">>, <<"z", "z">>,
     <<"6", "0", "0", "1", "1", "3", "2", "0">>,
     <<"6", "0", " ", "0", "1", " ", "1", "3", "3", "0">>}

Inputs ==
    {[exists |-> FALSE, errAt |-> 0, lines |-> <<>>]} \cup
    {[exists |-> TRUE, errAt |-> e, lines |-> l] :
        e \in 0..(MaxLines + 1),
        l \in UNION {[1..n -> InputLines] : n \in 0..MaxLines}}

InitParser ==
    /\ InitController
    /\ parser \in {[NoParser EXCEPT !.input = f] : f \in Inputs}

NextParser == DoParseFile \/ DoTraverse \/ DoCount

SpecParser == InitParser /\ [][NextParser]_vars

\* no get_status() call is half-way
Quiet == status.pc # "reading"

\* One continuous materialized run that the caller pauses, resumes and stops,
\* and another thread that calls get_status() once while it goes on; here the
\* call is through before anything else moves.
NextControl ==
    \/ status.pc = "idle" /\ ~AllIdle /\ GetStatusCall
    \/ GetStatusRead
    \/ Quiet /\ Tick(IntervalA)
    \/ Quiet /\ Connect
    \/ Quiet /\ AllIdle /\ LoadHexFile("good.txt", FALSE)
    \/ Quiet /\ AllIdle /\ cycle_count = 0 /\ StartSending(TRUE)
    \/ Quiet /\ ~AllIdle /\ StopSending
    \/ Quiet /\ ~AllIdle /\ PauseSending
    \/ Quiet /\ ~AllIdle /\ ResumeSending
    \/ Quiet /\ \E t \in Threads : WhileRunning(t)
    \/ Quiet /\ \E t \in Threads : IfNotPaused(t)
    \/ Quiet /\ \E t \in Threads : PollWake(t)
    \/ Quiet /\ \E t \in Threads : CycleBegin(t)
    \/ Quiet /\ \E t \in Threads : ForNext(t, FALSE)
    \/ Quiet /\ \E t \in Threads : SleepWake(t)
    \/ Quiet /\ \E t \in Threads : Send(t, TRUE)
    \/ Quiet /\ \E t \in Threads : Record(t, FALSE)
    \/ Quiet /\ \E t \in Threads : ResetIndex(t)
    \/ Quiet /\ \E t \in Threads : CycleDone(t, FALSE)

SpecControl == Init /\ [][NextControl]_vars

\* A run that is sure to go on: the scheduler lets every context take its
\* next step, every call of the transport and of an observer returns, and a
\* sleep ends.  The clock moves to the instant a waiting context is to wake
\* at; a wait that the clock of the model could not see the end of is not
\* begun (Horizon), nor a cycle beyond MaxCycles, unless stop() has been
\* called.
Horizon == now + IntervalA + PollInterval <= MaxTime

Elapse ==
    \E t \in Threads :
        /\ thread[t].pc \in {"sleep", "poll"}
        /\ now < thread[t].wake
        /\ Tick(thread[t].wake - now)

ThreadStep(t) ==
    \/ (is_running => cycle_count < MaxCycles) /\ WhileRunning(t)
    \/ ((is_running /\ is_paused) => Horizon) /\ IfNotPaused(t)
    \/ PollWake(t)
    \/ CycleBegin(t)
    \/ (BreakCondition \/ Horizon) /\ ForNext(t, FALSE)
    \/ SleepWake(t)
    \/ \E ok \in BOOLEAN : Send(t, ok)
    \/ Record(t, FALSE)
    \/ ResetIndex(t)
    \/ CycleDone(t, FALSE)

NextLive ==
    \/ Elapse
    \/ Connect
    \/ \E m \in Modes : AllIdle /\ cycle_count = 0 /\ LoadHexFile("good.txt", m)
    \/ AllIdle /\ Horizon /\ StartSending(TRUE)
    \/ ~AllIdle /\ StopSending
    \/ ~AllIdle /\ PauseSending
    \/ ~AllIdle /\ ResumeSending
    \/ \E t \in Threads : ThreadStep(t)

SpecLive ==
    /\ Init /\ [][NextLive]_vars
    /\ WF_vars(Elapse)
    /\ \A t \in Threads : WF_vars(ThreadStep(t))

\* -------------------------------------------------------------- the claims
\* the frames a cycle started now would go through
Source ==
    IF use_memory_efficient THEN Parsed[hex_filename].frames ELSE hex_data

\* context t takes a step that begins a frame: from the head of the for loop
\* to the wait or the send
BeginsFrame(t) ==
    thread[t].pc = "for" /\ thread'[t].pc \in {"sleep", "send"}

\* context t takes a step in which an exception leaves the for loop (no other
\* step leads from inside the loop to where _send_one_cycle has returned)
Raises(t) ==
    thread[t].pc \in {"for", "record"} /\ thread'[t].pc \in {"done", "idle"}

\* context t takes the step that calls the transport
Sends(t) == thread[t].pc = "send" /\ thread'[t].pc = "record"

\* context t has computed the wait of a frame and not yet recorded its send
Computed(t) == thread[t].pc \in {"sleep", "send", "record"}

\* the bytes of the frame context t is at
FrameBytes(t) == thread[t].src[thread[t].i].bytes

\* the wait the interval M asks for at the instant at, the class's last send
\* having been recorded at last (0: none yet)
Deficit(M, at, last) == IF last = 0 THEN 0 ELSE Max(0, M - (at - last))

\* C1: when the single loop starts the transmission of a class-A frame, at
\* least 1000 ms have passed since the completion time recorded for the
\* previous class-A attempt, and for a class-B frame at least 10 ms since the
\* previous class-B attempt's, whatever happened in between (the end of a
\* cycle, a pause and a resume, a failed send).
C1_MinimumIntervals ==
    \A t \in Threads :
        thread[t].pc \in {"send", "record"} =>
            /\ (Header(FrameBytes(t)) = HeaderA /\ endA > 0)
                   => thread[t].transmission_start_time - endA >= IntervalA
            /\ (Header(FrameBytes(t)) = HeaderB /\ endB > 0)
                   => thread[t].transmission_start_time - endB >= IntervalB

\* a class-A transmission starts exactly 1000 ms after the previous class-A
\* attempt, a send having failed before
C1_Witness ==
    \E t \in Threads :
        /\ thread[t].pc = "send"
        /\ Header(FrameBytes(t)) = HeaderA
        /\ endA > 0
        /\ thread[t].transmission_start_time = endA + IntervalA
        /\ failures > 0

\* C2: the wait computed for a class-A or class-B frame is 0 when no send of
\* its class has been recorded, and otherwise max(0, M - elapsed), elapsed
\* being the time since the class's recorded last send, M 1000 for class A and
\* 10 for class B.
C2_ComputedWait ==
    \A t \in Threads :
        Computed(t) =>
            /\ Header(FrameBytes(t)) = HeaderA
                   => thread[t].calculated_delay
                          = Deficit(1000, thread[t].current_time, endA)
            /\ Header(FrameBytes(t)) = HeaderB
                   => thread[t].calculated_delay
                          = Deficit(10, thread[t].current_time, endB)

\* a class-A frame 200 ms after the last class-A send waits 800 ms
C2_Witness ==
    \E t \in Threads :
        /\ thread[t].pc = "sleep"
        /\ Header(FrameBytes(t)) = HeaderA
        /\ thread[t].current_time - endA = 200
        /\ thread[t].calculated_delay = 800

\* C3: a frame whose first four bytes are neither 60 01 13 20 nor 60 01 13 30
\* (a frame of fewer than 4 bytes among them) is given a wait of exactly 10 ms,
\* which it sleeps before its transmission starts, whatever was sent before
\* and when.
C3_DefaultWait ==
    \A t \in Threads :
        (Computed(t) /\ Header(FrameBytes(t)) \notin {HeaderA, HeaderB}) =>
            /\ thread[t].calculated_delay = 10
            /\ thread[t].pc = "sleep"
                   => thread[t].wake = thread[t].current_time + 10
            /\ thread[t].pc # "sleep"
                   => thread[t].transmission_start_time
                          >= thread[t].current_time + 10

\* a frame of fewer than 4 bytes is about to sleep its 10 ms at the very
\* instant a class-B send was recorded, a class-A send having been recorded too
C3_Witness ==
    \E t \in Threads :
        /\ thread[t].pc = "sleep"
        /\ Len(FrameBytes(t)) < 4
        /\ thread[t].calculated_delay = 10
        /\ endA > 0
        /\ endB = thread[t].current_time

\* C4 (as claimed): after pause() in a continuous run and then resume(), the
\* first frame sent is the one that follows the last frame sent before the
\* pause (the first one again only after the last one).
C4_ResumeAtNextFrame ==
    [][\A t \in Threads :
         (thread[t].continuous /\ resumed /\ Sends(t))
             => thread[t].i = (lastIdx % total_data_count) + 1]_vars

\* C5: once stop() has been called while the cycle of a context is in progress
\* (and start_sending has not succeeded since), that context begins no further
\* frame and no further cycle, total_sent grows only by the send that was in
\* flight, current_index is 0 when the context leaves the cycle (other than by
\* an exception) and from the stop on changes only to 0.
C5_StopHalts ==
    [][\A t \in Threads :
         (thread[t].stopped /\ stopPending) =>
             /\ ~BeginsFrame(t)
             /\ thread'[t].pc # "cycle"
             /\ cycle_count' = cycle_count
             /\ total_sent' # total_sent => thread[t].pc = "record"
             /\ attempts' # attempts => thread[t].pc = "record"
             /\ (thread[t].pc # "done" /\ thread'[t].pc = "done" /\ ~Raises(t))
                    => current_index' = 0
             /\ current_index' # current_index => current_index' = 0]_vars

\* C5 witness: stop() came while frame 1 of 3 was in flight; the context has
\* broken out of the cycle at the head of frame 2 and left it
C5_Witness ==
    \E t \in Threads :
        /\ thread[t].stopped /\ stopPending /\ thread[t].broken
        /\ thread[t].pc = "done"
        /\ Len(thread[t].trace) = 1 /\ Len(thread[t].src) = 3
        /\ current_index = 0 /\ total_sent = 1

\* C7: total_sent is the number of sends that returned minus the number that
\* failed; a failed send is followed by the head of the for loop, and from the
\* head of the loop the next frame in order is begun whenever one is left and
\* neither stop nor pause is set and no observer raises.
C7_FailureDoesNotStop ==
    /\ [](total_sent = attempts - failures)
    /\ [][\A t \in Threads :
            /\ (thread[t].pc = "record" /\ ~thread[t].success
                   /\ thread'[t].pc # thread[t].pc /\ ~Raises(t))
                 => (thread'[t].pc = "for" /\ thread'[t].i = thread[t].i
                     /\ thread'[t].src = thread[t].src)
            /\ (thread[t].pc = "for" /\ thread[t].i < Len(thread[t].src)
                   /\ is_running /\ ~is_paused
                   /\ thread'[t].pc # thread[t].pc /\ ~Raises(t))
                 => (BeginsFrame(t) /\ thread'[t].i = thread[t].i + 1)]_vars

\* C7 witness: frame 1 of the first cycle failed on a connected transport and
\* frame 2 is being sent
C7_Witness ==
    \E t \in Threads :
        /\ attempts = 1 /\ failures = 1 /\ total_sent = 0 /\ is_connected
        /\ cycle_count = 1
        /\ thread[t].pc = "record" /\ thread[t].i = 2

\* the attempts of a whole cycle over frames src: each once, in order, under
\* the positions 1..N
WholeCycle(src) == [k \in 1..Len(src) |-> [idx |-> k, bytes |-> src[k].bytes]]

\* C8: a cycle that reaches its end without the break (and without an
\* exception) has attempted every frame of the source exactly once, in source
\* order, and current_index was 1, 2, ..., N at the frames' attempts.
C8_WholeCycleInOrder ==
    \A t \in Threads :
        /\ (thread[t].pc = "reset" /\ ~thread[t].broken)
              => thread[t].trace = WholeCycle(Source)
        /\ thread[t].pc \in {"sleep", "send"}
              => current_index = Len(thread[t].trace) + 1
        /\ thread[t].pc = "record"
              => (current_index = Len(thread[t].trace)
                  /\ thread[t].trace[current_index].idx = current_index)

\* C8 witness: an unbroken cycle over the three frames of good.txt is at its end
C8_Witness ==
    \E t \in Threads :
        /\ thread[t].pc = "reset" /\ ~thread[t].broken
        /\ Len(thread[t].trace) = 3 /\ current_index = 3

\* C9: start_sending(False) of a controller on which nothing was started since
\* its load, when it returns, has cycle_count = 1 and is_running = False.
C9_SingleShot ==
    [][\A t \in Threads :
         (thread[t].pc = "done" /\ ~thread[t].continuous /\ thread[t].fresh
            /\ thread'[t].pc = "idle")
             => (cycle_count' = 1 /\ ~is_running')]_vars

\* C9 witness: a single-shot start has returned after a whole cycle (a
\* continuous run ends only by stop() or an exception)
C9_Witness ==
    /\ AllIdle /\ ~is_running /\ ~stopPending /\ ~aborted
    /\ cycle_count = 1 /\ attempts = 3 /\ current_index = 0

\* C10: from a state in which the source has no frame or the transport is not
\* connected, no step launches a context or sets is_running; and a start that
\* returns early happens only in such a state and changes nothing.
C10_StartRejected ==
    [][/\ (Source = <<>> \/ ~is_connected)
            => /\ \A t \in Threads : ~Active(t) => thread'[t].pc = "idle"
               /\ is_running' => is_running
       /\ (rejected' /\ ~rejected)
            => /\ Source = <<>> \/ ~is_connected
               /\ UNCHANGED prog]_vars

\* C10 witness: start_sending has returned early, once for each reason
C10_Witness ==
    /\ rejected /\ AllIdle
    /\ \/ (Source = <<>> /\ is_connected /\ hex_filename = "empty.txt")
       \/ (Source # <<>> /\ ~is_connected)

\* C6 (as claimed): at most one context runs the sending loop at any time; a
\* start_sending made while one is running launches no second one.
C6_AtMostOneLoop ==
    Cardinality({t \in Threads : Active(t)}) <= 1

\* load_hex_file's return value is False (lines 69-71, 79-81, 87-89): the
\* traversal of the file named last raised, or yielded no frame
LoadFailed ==
    /\ hex_filename # ""
    /\ Parsed[hex_filename].raises \/ Parsed[hex_filename].frames = <<>>

\* C11 (as claimed): after a load_hex_file that reported failure, and until a
\* later load succeeds, start_sending launches nothing and no frame is sent.
C11_LoadFailureFatal ==
    [][LoadFailed =>
          \A t \in Threads :
              /\ ~(thread[t].pc = "idle" /\ thread'[t].pc # "idle")
              /\ ~Sends(t)]_vars

\* C12: in streaming mode an exception raised inside a cycle (by an observer
\* callback or by the generator) ends that cycle only: _send_one_cycle returns
\* as after any cycle, is_running keeps its value and the context stays the
\* loop it was, so that a continuous run goes on with the next cycle.
C12_StreamingAbortsCycleOnly ==
    [][\A t \in Threads :
         (thread[t].streaming /\ Raises(t)) =>
             /\ thread'[t].pc = "done"
             /\ thread'[t].continuous = thread[t].continuous
             /\ is_running' = is_running]_vars

\* a continuous streaming run is sending a frame of its second cycle, an
\* exception having ended the first
C12_Witness ==
    \E t \in Threads :
        /\ thread[t].streaming /\ thread[t].continuous
        /\ aborted /\ is_running
        /\ cycle_count = 2
        /\ thread[t].pc = "send"

\* C13 (as claimed): in materialized mode an exception raised inside a cycle
\* of a continuous run ends that cycle only: the context stays alive as the
\* loop, and the controller is never left with is_running set and no loop.
C13_MaterializedAbortsCycleOnly ==
    [][\A t \in Threads :
         (~thread[t].streaming /\ thread[t].continuous /\ Raises(t)) =>
             /\ thread'[t].pc # "idle"
             /\ ~(is_running' /\ \A u \in Threads : thread'[u].pc = "idle")]_vars

\* context t takes the step in which its cycle ends: _send_one_cycle_* returns
\* or is left by an exception
EndsCycle(t) ==
    /\ thread[t].pc \in {"for", "sleep", "send", "record", "reset"}
    /\ thread'[t].pc \in {"done", "idle"}

\* C14 (as claimed): whenever a cycle ends, completed, cut by stop or pause, or
\* aborted by an error, in either mode, current_index is 0.
C14_IndexZeroAtCycleEnd ==
    [][\A t \in Threads : EndsCycle(t) => current_index' = 0]_vars

\* C15 (as claimed): while is_paused is set in a continuous run, the loop
\* begins no frame and no cycle, and cycle_count, current_index and total_sent
\* keep their values, but for total_sent counting the frame that was in
\* progress when pause() was called.
C15_PausedLoopIdles ==
    [][\A t \in Threads :
         (is_paused /\ is_running /\ thread[t].continuous
            /\ thread'[t].pc # thread[t].pc) =>
             /\ ~BeginsFrame(t)
             /\ ~(thread[t].pc = "cycle" /\ thread'[t].pc = "for")
             /\ cycle_count' = cycle_count
             /\ current_index' = current_index
             /\ total_sent' # total_sent => thread[t].pc = "record"]_vars

\* C16 (as claimed): once stop() has been called, no transport send starts
\* more than 100 ms later.  A send starts no earlier than the instant its
\* wait was computed plus that wait.
C16_StopWithin100ms ==
    [][\A t \in Threads :
         (stopPending /\ Sends(t)) =>
             (thread[t].current_time + thread[t].calculated_delay) - stopTime
                 <= 100]_vars

\* C17 (as claimed): the six values get_status() returns all held together in
\* one state the controller was in during the call.
C17_StatusIsSnapshot ==
    status.pc = "returned" => SubSeq(status.got, 1, 6) \in status.seen

\* what load_hex_file(filename, False) leaves in hex_data on a new controller
\* (lines 76-77, 87-89): the frames of the file, or nothing when parse_file
\* raised
MaterializedFrames(filename) ==
    IF Parsed[filename].raises THEN <<>> ELSE Parsed[filename].frames

\* C18 (as claimed): for the same input the streaming scheduler makes the
\* sends the materialized one makes: every frame a streaming cycle has sent is,
\* at the same position, a frame of what the materialized load of the same
\* file holds.
C18_StreamingSendsAsMaterialized ==
    \A t \in Threads :
        thread[t].streaming =>
            \A j \in 1..Len(thread[t].trace) :
                LET a == thread[t].trace[j]
                    held == MaterializedFrames(hex_filename)
                IN  /\ a.idx <= Len(held)
                    /\ a.idx <= Len(held) => held[a.idx].bytes = a.bytes

C20_TotalSentMonotonic == [][total_sent' >= total_sent]_vars


\* lines 176-178: context t steps from the end of its cycle to the loop's
\* head through the cycle-complete callback (start_sending's line 147 has no
\* such call)
OnCycleComplete(t) ==
    /\ thread[t].pc = "done" /\ thread[t].continuous
    /\ thread'[t].pc # "done"

\* the cycle context t has come to the end of has attempted every frame
AllAttempted(t) ==
    /\ thread[t].src # <<>>
    /\ ~thread[t].broken
    /\ thread[t].trace = WholeCycle(thread[t].src)

\* C21: when a context leaves the end of a cycle that no exception ended,
\* continuous or single-shot, the cycle-complete callback is called if and
\* only if every frame of the cycle was attempted (never after a cycle cut
\* short by stop() or pause()).
C21_CycleCompleteExactly ==
    [][\A t \in Threads :
         (thread[t].pc = "done" /\ thread'[t].pc # "done" /\ ~aborted)
            => (OnCycleComplete(t) <=> AllAttempted(t))]_vars


\* ---- the input of the parser, as the format describes it
\* a line of blanks only
IsBlank(line) == \A k \in 1..Len(line) : line[k] = " "

\* the blank-line-delimited blocks of the lines, each the sequence of its lines
RECURSIVE SplitBlocks(_, _)
SplitBlocks(lines, cur) ==
    LET closed == IF cur = <<>> THEN <<>> ELSE <<cur>>
    IN  IF lines = <<>> THEN closed
        ELSE IF IsBlank(Head(lines))
        THEN closed \o SplitBlocks(Tail(lines), <<>>)
        ELSE SplitBlocks(Tail(lines), Append(cur, Head(lines)))

InputBlocks == SplitBlocks(parser.input.lines, <<>>)

\* the hex digits of a block, in order
RECURSIVE Flatten(_)
Flatten(block) == IF block = <<>> THEN <<>> ELSE Head(block) \o Flatten(Tail(block))

Digits(block) == SelectSeq(Flatten(block), IsHexChar)

OddBlock(block) == Len(Digits(block)) % 2 = 1
EvenBlock(block) == Len(Digits(block)) % 2 = 0 /\ Len(Digits(block)) > 0
NoDigitBlock(block) == Digits(block) = <<>>

\* the lines of the blocks, a blank line after each
RECURSIVE Rejoin(_)
Rejoin(blocks) ==
    IF blocks = <<>> THEN <<>>
    ELSE Head(blocks) \o <<<<>>>> \o Rejoin(Tail(blocks))

\* the input can be read to its end
Readable == parser.input.exists /\ parser.input.errAt = 0

\* C22: on a readable input the traversal does not raise whatever blocks have
\* an odd number of hex digits; such a block yields no frame, the frames are
\* those of the input without these blocks (the blocks after them are parsed
\* as before), and the number of frames is the number of blocks less one for
\* each odd block (and for each block with no hex digit at all).
C22_OddBlockDropped ==
    (parser.first.done /\ Readable) =>
        LET odd == SelectSeq(InputBlocks, OddBlock)
            kept == SelectSeq(InputBlocks, LAMBDA b : ~OddBlock(b))
            none == SelectSeq(InputBlocks, NoDigitBlock)
        IN  /\ ~parser.first.raises
            /\ parser.first.frames =
                  Traversal([parser.input EXCEPT !.lines = Rejoin(kept)]).frames
            /\ Len(parser.first.frames) = Len(InputBlocks) - Len(odd) - Len(none)

\* C22 witness: an odd block, then a block that yields the one frame
C22_Witness ==
    /\ parser.first.done /\ Readable
    /\ Len(InputBlocks) = 2
    /\ OddBlock(InputBlocks[1]) /\ EvenBlock(InputBlocks[2])
    /\ Len(parser.first.frames) = 1


\* the value of a hex digit
DigitValue(c) ==
    CASE c \in {"0"} -> 0 [] c \in {"1"} -> 1 [] c \in {"2"} -> 2
      [] c \in {"3"} -> 3 [] c \in {"4"} -> 4 [] c \in {"5"} -> 5
      [] c \in {"6"} -> 6 [] c \in {"7"} -> 7 [] c \in {"8"} -> 8
      [] c \in {"9"} -> 9 [] c \in {"a", "A"} -> 10 [] c \in {"b", "B"} -> 11
      [] c \in {"c", "C"} -> 12 [] c \in {"d", "D"} -> 13
      [] c \in {"e", "E"} -> 14 [] c \in {"f", "F"} -> 15

\* the bytes an even number of hex digits stand for, pair by pair
Decoding(digits) ==
    [j \in 1..(Len(digits) \div 2) |->
        16 * DigitValue(digits[2 * j - 1]) + DigitValue(digits[2 * j])]

\* the nominal delay of a payload: that of its first four bytes
NominalDelay(bytes) ==
    IF Len(bytes) >= 4 /\ <<bytes[1], bytes[2], bytes[3], bytes[4]>> = <<96, 1, 19, 32>>
    THEN 1000 ELSE 10

\* C23: on a readable input the frames are, in order, one for each block with
\* an even, non-zero number of hex digits: its payload is the byte decoding
\* of the block's digits and its delay is 1000 ms when the first four bytes
\* are 60 01 13 20 and 10 ms otherwise.
C23_EvenBlockOneFrame ==
    (parser.first.done /\ Readable) =>
        LET even == SelectSeq(InputBlocks, EvenBlock)
        IN  /\ Len(parser.first.frames) = Len(even)
            /\ \A k \in 1..Len(even) :
                  LET payload == Decoding(Digits(even[k]))
                  IN  /\ parser.first.frames[k].bytes = payload
                      /\ parser.first.frames[k].delay_ms = NominalDelay(payload)

\* C23 witness: a block of two lines has given a class-A frame of five bytes
C23_Witness ==
    /\ parser.first.done /\ Readable
    /\ Len(InputBlocks) = 1 /\ Len(InputBlocks[1]) = 2
    /\ Len(parser.first.frames) = 1
    /\ Len(parser.first.frames[1].bytes) = 5
    /\ parser.first.frames[1].delay_ms = 1000

\* context t takes the step that follows the return of send_data: the
\* attempt's completion is recorded
Recorded(t) == thread[t].pc = "record" /\ thread'[t].pc # "record"

\* C24: the step that follows an attempt of a class-A (class-B) frame,
\* successful or failed, sets last_60_01_13_20_time (last_60_01_13_30_time) to
\* the completion time; and the wait computed for the next frame of the class
\* is the one the interval asks for since the last attempt of the class,
\* failed or not.
C24_FailedSendRecorded ==
    [][\A t \in Threads :
         /\ Recorded(t) =>
               /\ Header(FrameBytes(t)) = HeaderA => last_60_01_13_20_time' = now
               /\ Header(FrameBytes(t)) = HeaderB => last_60_01_13_30_time' = now
         /\ BeginsFrame(t) =>
               LET header == Header(thread'[t].src[thread'[t].i].bytes)
               IN  /\ header = HeaderA =>
                         thread'[t].calculated_delay = Deficit(IntervalA, now, endA)
                   /\ header = HeaderB =>
                         thread'[t].calculated_delay = Deficit(IntervalB, now, endB)]_vars

\* C24 witness: the only attempt so far, of the class-A frame, has failed; a
\* pause has ended the cycle, and the class-A frame of the next cycle waits for
\* the rest of the interval since that attempt
C24_Witness ==
    \E t \in Threads :
        /\ attempts = 1 /\ failures = 1 /\ total_sent = 0
        /\ cycle_count = 2
        /\ thread[t].pc = "sleep" /\ thread[t].i = 1
        /\ last_60_01_13_20_time = endA /\ endA > 0
        /\ thread[t].calculated_delay > 0
        /\ thread[t].calculated_delay = IntervalA - (thread[t].current_time - endA)

\* C26: the step that follows an attempt leaves the timestamp of every class
\* other than the frame's own as it was: both for a frame of neither class,
\* last_60_01_13_30_time for a class-A frame, last_60_01_13_20_time for a
\* class-B frame.
C26_OwnClassOnly ==
    [][\A t \in Threads :
         Recorded(t) =>
            /\ Header(FrameBytes(t)) # HeaderA =>
                  last_60_01_13_20_time' = last_60_01_13_20_time
            /\ Header(FrameBytes(t)) # HeaderB =>
                  last_60_01_13_30_time' = last_60_01_13_30_time]_vars

\* C26 witness: the attempts of a class-A, of a class-B and of another frame
\* are recorded, at three instants, and each class has the time of its own
C26_Witness ==
    /\ attempts = 3 /\ lastIdx = 3
    /\ last_60_01_13_20_time = endA /\ last_60_01_13_30_time = endB
    /\ endA > 0 /\ endB > endA + DefaultDelay
    /\ \E t \in Threads : thread[t].pc = "for" /\ thread[t].i = 3

\* C25: in each context, the step that reports the progress of frame k comes
\* when the attempts of the frames before k are made and their outcomes
\* reported; from there the context goes nowhere but through the wait to the
\* call of send_data, whatever stop() or pause() does meanwhile; that call is
\* the one attempt of frame k; and from the return of send_data the context
\* goes nowhere but through the report of the outcome, back to the head of the
\* loop (or out of the cycle, when the observer raises).
C25_NotificationsOrdered ==
    [][\A t \in Threads :
         /\ BeginsFrame(t) =>
               /\ Len(thread[t].trace) = thread[t].i
               /\ thread'[t].i = thread[t].i + 1
               /\ current_index' = thread'[t].i
         /\ thread[t].pc \in {"sleep", "send"} =>
               thread'[t].pc \in {"sleep", "send", "record"}
         /\ Sends(t) =>
               thread'[t].trace =
                  Append(thread[t].trace,
                         [idx |-> thread[t].i, bytes |-> FrameBytes(t)])
         /\ thread[t].pc = "record" =>
               /\ thread'[t].pc \in {"record", "for", "done", "idle"}
               /\ Len(thread[t].trace) = thread[t].i]_vars

\* C25 witness: stop() came during the wait of a frame whose progress was
\* reported, and the frame's send has been made all the same
C25_Witness ==
    \E t \in Threads :
        /\ thread[t].pc = "record" /\ thread[t].continuous
        /\ ~is_running /\ stopPending
        /\ thread[t].current_time <= stopTime
        /\ stopTime < thread[t].transmission_start_time


\* what the control operations and get_status() have no business with: the
\* timestamps, the counters, the position and the loaded frames
Kept ==
    UNCHANGED <<last_60_01_13_20_time, last_60_01_13_30_time, cycle_count,
                current_index, total_sent, hex_data, hex_filename,
                total_data_count, use_memory_efficient>>

\* C27: pause_sending sets is_paused, resume_sending clears it,
\* stop_sending clears is_running and is_paused, and a step of any of them or
\* of get_status() leaves the timestamps, cycle_count, current_index,
\* total_sent and the loaded frames as they were; get_status() leaves the
\* flags too.
C27_ControlsWriteFlagsOnly ==
    [][/\ PauseSending => (is_paused' /\ UNCHANGED is_running /\ Kept)
       /\ ResumeSending => (~is_paused' /\ UNCHANGED is_running /\ Kept)
       /\ StopSending => (~is_running' /\ ~is_paused' /\ Kept)
       /\ (GetStatusCall \/ GetStatusRead)
             => (UNCHANGED <<is_running, is_paused>> /\ Kept)]_vars

\* C27 witness: a run was paused and resumed between two attempts, get_status()
\* has returned, and the class-A timestamp is that of the attempt made before
\* the pause
C27_Witness ==
    /\ resumed /\ is_running /\ ~is_paused
    /\ status.pc = "returned"
    /\ attempts >= 1 /\ total_sent = attempts
    /\ last_60_01_13_20_time = endA /\ endA > 0


\* C28: once stop_sending has been called on a continuous run, and as long as
\* start_sending is not called again, the loop comes to its end: whatever the
\* context was at (a send, the wait before a send, between two cycles, the
\* poll of a pause), there is eventually no context left.
C28_StopTerminates == (stopPending /\ ~AllIdle) ~> AllIdle

\* C28 witness: the loop has ended after a stop() that came while it was at a
\* wait, which it saw to its end
C28_Witness ==
    /\ stopPending /\ AllIdle /\ ~is_running
    /\ stopTime > 0 /\ stopTime < now
    /\ attempts >= 1


====
